---- MODULE Spec2Model ----
(***************************************************************************)
(* Model of bot.py: the process life cycle of main(), the dispatch table   *)
(* registered there, and the three handlers start, handle_prompt and       *)
(* handle_submission, each split at its awaits and external calls.         *)
(***************************************************************************)
EXTENDS Integers, Sequences, FiniteSets, TLC

\* ---------------------------------------------------------------- bounds
MaxFileId == 2

\* Two invocation contexts: updates are handled one at a time by default, and
\* the concurrency question asked of handle_submission is about two
\* invocations in flight.
Slots == { 1, 2 }
FileIds == 1 .. MaxFileId

\* ------------------------------------------------------- program constants
MinRating == 1
MaxRating == 10

\* (the sample prompt is set in code quotes in the source)
WelcomeText == ":wave: Welcome to the Weekly Coloring Challenge!\n\nSend me a prompt like:\nA cat riding a bike :bike::cat:"
StartApology == "Sorry, something went wrong. Please try again later."
PromptApologyHead == "Sorry, something went wrong: "
CaptionHead == ":art: Here's your coloring sheet!\nRating: "
ConfirmHead == ":white_check_mark: Submission received! Rating: "
ConfirmTail == " Points will be awarded upon approval."
SubmissionFailure == "Sorry, something went wrong while processing your submission. Please try again later."
Excellent == "Excellent work! You've nailed it!"
GreatJob == "Great job! Really impressive!"
GoodEffort == "Good effort! Keep it up!"
NiceTry == "Nice try! Keep practicing!"

\* ------------------------------------------------------------ input sets
\* A text is the sequence of its tokens; the first token of a text that
\* begins with the command marker is "/".
Texts == { <<"/", "start">>, <<"/", "help">>, <<"/", " ", "cat">>, <<"a cat riding a bike">> }
CommandNames == { "start", "help" }
Modes == { "RGB", "P" }
Urls == { "https://img/1", "https://img/2" }

TextMessages == { [kind |-> "text", text |-> t, fileId |-> 0] : t \in Texts }
PhotoMessages == { [kind |-> "photo", text |-> <<>>, fileId |-> f] : f \in FileIds }
OtherMessages == { [kind |-> "sticker", text |-> <<>>, fileId |-> 0] }
Messages == TextMessages \cup PhotoMessages \cup OtherMessages
NoMessage == [kind |-> "none", text |-> <<>>, fileId |-> 0]

\* ------------------------------------------------------------- dispatch
\* str.startswith('/')
StartsWithSlash(text) == Len(text) >= 1 /\ text[1] = "/"

\* The transport marks a bot_command entity at offset 0 only when the marker
\* is directly followed by a command name.
HasCommandEntity(m) == m.kind = "text" /\ Len(m.text) >= 2 /\ m.text[1] = "/" /\ m.text[2] \in CommandNames

FilterPHOTO(m) == m.kind = "photo"
FilterTEXT(m) == m.kind = "text" /\ Len(m.text) >= 1
FilterCOMMAND(m) == HasCommandEntity(m)

CommandHandlerCheck(command, m) == HasCommandEntity(m) /\ m.text[2] = command

Handlers == << [check |-> "CommandHandler", callback |-> "start"],
               [check |-> "PHOTO", callback |-> "handle_submission"],
               [check |-> "TEXT & ~COMMAND", callback |-> "handle_prompt"] >>

CheckUpdateNoCommandExclusion(h, m) ==
    CASE h.check = "CommandHandler" -> CommandHandlerCheck("start", m)
      [] h.check = "PHOTO" -> FilterPHOTO(m)
      [] h.check = "TEXT & ~COMMAND" -> FilterTEXT(m)

CheckUpdate(h, m) ==
    CASE h.check = "CommandHandler" -> CommandHandlerCheck("start", m)
      [] h.check = "PHOTO" -> FilterPHOTO(m)
      [] h.check = "TEXT & ~COMMAND" -> FilterTEXT(m) /\ ~FilterCOMMAND(m)

\* All three handlers are registered in the default group: the first handler
\* whose check accepts the update is the only one invoked.
Dispatch(m) ==
    LET matching == { k \in DOMAIN Handlers : CheckUpdate(Handlers[k], m) }
    IN  IF matching = {} THEN <<>>
        ELSE << Handlers[CHOOSE k \in matching : \A j \in matching : k <= j].callback >>

\* ----------------------------------------------------------- pure helpers
\* random.randint(1, 10) in handle_prompt
RatingDomainPrompt == MinRating .. MaxRating

RatingDomainSubmissionWide == (MinRating - 1) .. MaxRating

\* random.randint(1, 10) in handle_submission
RatingDomainSubmission == MinRating .. MaxRating

PromptAppreciationStrict(rating) ==
    IF rating = 10 THEN Excellent
    ELSE IF rating > 8 THEN GreatJob
    ELSE IF rating >= 6 THEN GoodEffort
    ELSE NiceTry

PromptAppreciation(rating) ==
    IF rating = 10 THEN Excellent
    ELSE IF rating >= 8 THEN GreatJob
    ELSE IF rating >= 6 THEN GoodEffort
    ELSE NiceTry

SubmissionAppreciation(rating) ==
    IF rating = 10 THEN Excellent
    ELSE IF rating >= 8 THEN GreatJob
    ELSE IF rating >= 6 THEN GoodEffort
    ELSE NiceTry

\* f"...Rating: {rating}/10\n{appreciation}"
Caption(rating, appreciation) == << CaptionHead, ToString(rating), "/10\n", appreciation >>
Confirmation(rating, appreciation) == << ConfirmHead, ToString(rating), "/10\n", appreciation, ConfirmTail >>
PromptApology(e) == << PromptApologyHead, e >>

FilePathShared(fileId) == << "temp_", ToString(1), ".jpg" >>

\* f"temp_{photo.file_id}.jpg"
FilePath(fileId) == << "temp_", ToString(fileId), ".jpg" >>

Paths == { FilePath(f) : f \in FileIds }
NoPath == << "" >>
Absent == [fmt |-> "absent", mode |-> ""]

\* ---------------------------------------------------------------- state
VARIABLES proc, inv, sent, disk
vars == << proc, inv, sent, disk >>

IdleInv == [h |-> "none", pc |-> "idle", msg |-> NoMessage, invoked |-> <<>>,
            provider |-> "none", image_url |-> "", rated |-> FALSE, rating |-> 0,
            appreciation |-> "", e |-> "", file_path |-> NoPath, img |-> "",
            downloaded |-> FALSE]

Init ==
    /\ proc = [pc |-> "import", exitCode |-> 0, cause |-> "", concurrent_updates |-> FALSE]
    /\ inv = [i \in Slots |-> IdleInv]
    /\ sent = [i \in Slots |-> <<>>]
    /\ disk = [p \in Paths |-> Absent]

Text(body, ok) == [op |-> "reply_text", photo |-> "", body |-> body, ok |-> ok]
Photo(url, body, ok) == [op |-> "reply_photo", photo |-> url, body |-> body, ok |-> ok]

AllIdle == \A j \in Slots : inv[j].pc = "idle"

\* The handler of slot i returns with locals r, having sent log. Under
\* one-at-a-time processing the returned invocation stays visible until
\* Return drops the update; a concurrently run handler task is dropped at once.
Finish(i, r, log) ==
    /\ inv' = [inv EXCEPT ![i] = IF proc.concurrent_updates THEN IdleInv ELSE [r EXCEPT !.pc = "done"]]
    /\ sent' = [sent EXCEPT ![i] = IF proc.concurrent_updates THEN <<>> ELSE log]

\* ----------------------------------------------------------- process life
\* Module level: load_dotenv, logging, openai.api_key = ...
ModuleInit ==
    /\ proc.pc = "import"
    /\ proc' = [proc EXCEPT !.pc = "main_build"]
    /\ UNCHANGED << inv, sent, disk >>

\* Application.builder().token(BOT_TOKEN).build(), then add_handler x3
BuildOk ==
    /\ proc.pc = "main_build"
    /\ proc' = [proc EXCEPT !.pc = "main_run"]
    /\ UNCHANGED << inv, sent, disk >>

\* build() raises: except logs, finally logs, main returns
BuildFail ==
    /\ proc.pc = "main_build"
    /\ proc' = [proc EXCEPT !.pc = "exited", !.exitCode = 0, !.cause = "build_failed"]
    /\ UNCHANGED << inv, sent, disk >>

\* application.run_webhook(...) starts serving
RunWebhookOk ==
    /\ proc.pc = "main_run"
    /\ proc' = [proc EXCEPT !.pc = "running"]
    /\ UNCHANGED << inv, sent, disk >>

\* run_webhook raises (port in use, webhook registration refused)
RunWebhookFail ==
    /\ proc.pc = "main_run"
    /\ proc' = [proc EXCEPT !.pc = "exited", !.exitCode = 0, !.cause = "webhook_failed"]
    /\ UNCHANGED << inv, sent, disk >>

\* stop signal: run_webhook returns, finally logs, main returns
Terminate ==
    /\ proc.pc = "running"
    /\ AllIdle
    /\ proc' = [proc EXCEPT !.pc = "exited", !.exitCode = 0, !.cause = "terminated"]
    /\ UNCHANGED << inv, sent, disk >>

\* ------------------------------------------------------------- delivery
FirstPc(callback) ==
    CASE callback = "start" -> "start_reply"
      [] callback = "handle_prompt" -> "prompt_check"
      [] callback = "handle_submission" -> "sub_get_file"

\* process_update: the update goes to the handlers Dispatch selects; an
\* update no handler accepts is dropped.
Deliver(i, m) ==
    /\ proc.pc = "running"
    /\ inv[i].pc = "idle"
    /\ proc.concurrent_updates \/ AllIdle
    /\ LET invoked == Dispatch(m)
           r == [IdleInv EXCEPT !.msg = m, !.invoked = invoked]
       IN  IF invoked = <<>>
           THEN Finish(i, r, <<>>)
           ELSE /\ inv' = [inv EXCEPT ![i] = [r EXCEPT !.h = invoked[1], !.pc = FirstPc(invoked[1])]]
                /\ sent' = [sent EXCEPT ![i] = <<>>]
    /\ UNCHANGED << proc, disk >>

\* The update is done with: its invocation record is discarded.
Return(i) ==
    /\ inv[i].pc = "done"
    /\ inv' = [inv EXCEPT ![i] = IdleInv]
    /\ sent' = [sent EXCEPT ![i] = <<>>]
    /\ UNCHANGED << proc, disk >>

\* ---------------------------------------------------------------- start
\* await update.message.reply_text(<welcome>)
StartReply(i) ==
    /\ inv[i].pc = "start_reply"
    /\ \E ok \in BOOLEAN :
        LET log == Append(sent[i], Text(<< WelcomeText >>, ok))
        IN  IF ok
            THEN Finish(i, inv[i], log)
            ELSE /\ inv' = [inv EXCEPT ![i].pc = "start_except", ![i].e = "TelegramError"]
                 /\ sent' = [sent EXCEPT ![i] = log]
    /\ UNCHANGED << proc, disk >>

\* except Exception as e: log, reply_text(<generic apology>)
StartExcept(i) ==
    /\ inv[i].pc = "start_except"
    /\ \E ok \in BOOLEAN :
        Finish(i, inv[i], Append(sent[i], Text(<< StartApology >>, ok)))
    /\ UNCHANGED << proc, disk >>

\* -------------------------------------------------------- handle_prompt
PromptCheckNoGuard(i) ==
    /\ inv[i].pc = "prompt_check"
    /\ inv' = [inv EXCEPT ![i].pc = "prompt_generate"]
    /\ UNCHANGED << proc, sent, disk >>

\* if update.message.text.startswith('/'): return
PromptCheck(i) ==
    /\ inv[i].pc = "prompt_check"
    /\ IF StartsWithSlash(inv[i].msg.text)
       THEN Finish(i, inv[i], sent[i])
       ELSE /\ inv' = [inv EXCEPT ![i].pc = "prompt_generate"]
            /\ UNCHANGED sent
    /\ UNCHANGED << proc, disk >>

\* What openai.images.generate can hand back: an exception, or a response
\* whose data list is empty (malformed) or holds the one requested image.
ProviderOutcomes == { [raises |-> TRUE, data |-> <<>>] } \cup
                    { [raises |-> FALSE, data |-> d] : d \in { <<>> } \cup { << u >> : u \in Urls } }

\* response = openai.images.generate(...); image_url = response.data[0].url
\* (e holds the exception's class name in place of its text)
PromptGenerate(i) ==
    /\ inv[i].pc = "prompt_generate"
    /\ \E r \in ProviderOutcomes :
        inv' = [inv EXCEPT ![i] =
                 IF r.raises
                 THEN [@ EXCEPT !.provider = "raised", !.e = "APIError", !.pc = "prompt_except"]
                 ELSE IF Len(r.data) = 0
                 THEN [@ EXCEPT !.provider = "malformed", !.e = "IndexError", !.pc = "prompt_except"]
                 ELSE [@ EXCEPT !.provider = "ok", !.image_url = r.data[1], !.pc = "prompt_rate"]]
    /\ UNCHANGED << proc, sent, disk >>

\* rating = random.randint(1, 10), then the if/elif chain
PromptRate(i) ==
    /\ inv[i].pc = "prompt_rate"
    /\ \E r \in RatingDomainPrompt :
        inv' = [inv EXCEPT ![i].rated = TRUE, ![i].rating = r,
                           ![i].appreciation = PromptAppreciation(r),
                           ![i].pc = "prompt_reply"]
    /\ UNCHANGED << proc, sent, disk >>

PromptReplyAnyUrl(i) ==
    /\ inv[i].pc = "prompt_reply"
    /\ \E ok \in BOOLEAN, u \in Urls :
        LET log == Append(sent[i], Photo(u, Caption(inv[i].rating, inv[i].appreciation), ok))
        IN  IF ok
            THEN Finish(i, inv[i], log)
            ELSE /\ inv' = [inv EXCEPT ![i].pc = "prompt_except", ![i].e = "TelegramError"]
                 /\ sent' = [sent EXCEPT ![i] = log]
    /\ UNCHANGED << proc, disk >>

\* await update.message.reply_photo(photo=image_url, caption=...)
PromptReply(i) ==
    /\ inv[i].pc = "prompt_reply"
    /\ \E ok \in BOOLEAN :
        LET log == Append(sent[i], Photo(inv[i].image_url, Caption(inv[i].rating, inv[i].appreciation), ok))
        IN  IF ok
            THEN Finish(i, inv[i], log)
            ELSE /\ inv' = [inv EXCEPT ![i].pc = "prompt_except", ![i].e = "TelegramError"]
                 /\ sent' = [sent EXCEPT ![i] = log]
    /\ UNCHANGED << proc, disk >>

PromptExceptSilent(i) ==
    /\ inv[i].pc = "prompt_except"
    /\ Finish(i, inv[i], sent[i])
    /\ UNCHANGED << proc, disk >>

\* except Exception as e: log, reply_text(f"Sorry, something went wrong: {e}")
PromptExcept(i) ==
    /\ inv[i].pc = "prompt_except"
    /\ \E ok \in BOOLEAN :
        Finish(i, inv[i], Append(sent[i], Text(PromptApology(inv[i].e), ok)))
    /\ UNCHANGED << proc, disk >>

\* ---------------------------------------------------- handle_submission
\* An exception inside the try block: control goes to the except clause.
Raise(i, e) == [inv EXCEPT ![i].pc = "sub_except", ![i].e = e]

\* photo = update.message.photo[-1]; file = await get_file(photo.file_id);
\* file_path = f"temp_{photo.file_id}.jpg"
SubGetFile(i) ==
    /\ inv[i].pc = "sub_get_file"
    /\ \E ok \in BOOLEAN :
        inv' = IF ok
               THEN [inv EXCEPT ![i].file_path = FilePath(inv[i].msg.fileId), ![i].pc = "sub_download"]
               ELSE Raise(i, "TelegramError")
    /\ UNCHANGED << proc, sent, disk >>

\* await file.download_to_drive(file_path): the bytes that arrive decode to
\* an image of some mode.
SubDownload(i) ==
    /\ inv[i].pc = "sub_download"
    /\ \E ok \in BOOLEAN, mode \in Modes :
        IF ok
        THEN /\ disk' = [disk EXCEPT ![inv[i].file_path] = [fmt |-> "raw", mode |-> mode]]
             /\ inv' = [inv EXCEPT ![i].downloaded = TRUE, ![i].pc = "sub_open"]
        ELSE /\ inv' = Raise(i, "TelegramError")
             /\ UNCHANGED disk
    /\ UNCHANGED << proc, sent >>

\* with Image.open(file_path) as img
SubOpen(i) ==
    /\ inv[i].pc = "sub_open"
    /\ \E ok \in BOOLEAN :
        inv' = IF disk[inv[i].file_path].fmt = "absent"
               THEN Raise(i, "FileNotFoundError")
               ELSE IF disk[inv[i].file_path].fmt = "partial" \/ ~ok
               THEN Raise(i, "UnidentifiedImageError")
               ELSE [inv EXCEPT ![i].img = disk[inv[i].file_path].mode, ![i].pc = "sub_convert"]
    /\ UNCHANGED << proc, sent, disk >>

\* if img.mode != 'RGB': img = img.convert('RGB')
SubConvert(i) ==
    /\ inv[i].pc = "sub_convert"
    /\ IF inv[i].img # "RGB"
       THEN \E ok \in BOOLEAN :
              inv' = IF ok THEN [inv EXCEPT ![i].img = "RGB", ![i].pc = "sub_save"]
                     ELSE Raise(i, "OSError")
       ELSE inv' = [inv EXCEPT ![i].pc = "sub_save"]
    /\ UNCHANGED << proc, sent, disk >>

\* img.save(file_path, 'JPEG'): a failed save leaves the file as it was, or
\* truncated when the encoder fails after the file was opened for writing.
SubSave(i) ==
    /\ inv[i].pc = "sub_save"
    /\ \E ok \in BOOLEAN, truncated \in BOOLEAN :
        IF ok /\ inv[i].img = "RGB"
        THEN /\ disk' = [disk EXCEPT ![inv[i].file_path] = [fmt |-> "JPEG", mode |-> inv[i].img]]
             /\ inv' = [inv EXCEPT ![i].pc = "sub_rate"]
        ELSE /\ disk' = IF truncated
                        THEN [disk EXCEPT ![inv[i].file_path] = [fmt |-> "partial", mode |-> ""]]
                        ELSE disk
             /\ inv' = Raise(i, "OSError")
    /\ UNCHANGED << proc, sent >>

\* rating = random.randint(1, 10), then the if/elif chain
SubRate(i) ==
    /\ inv[i].pc = "sub_rate"
    /\ \E r \in RatingDomainSubmission :
        inv' = [inv EXCEPT ![i].rated = TRUE, ![i].rating = r,
                           ![i].appreciation = SubmissionAppreciation(r),
                           ![i].pc = "sub_reply"]
    /\ UNCHANGED << proc, sent, disk >>

\* await update.message.reply_text(f"...Submission received! Rating: ...")
SubReply(i) ==
    /\ inv[i].pc = "sub_reply"
    /\ \E ok \in BOOLEAN :
        /\ sent' = [sent EXCEPT ![i] =
                     Append(@, Text(Confirmation(inv[i].rating, inv[i].appreciation), ok))]
        /\ inv' = IF ok THEN [inv EXCEPT ![i].pc = "sub_remove"] ELSE Raise(i, "TelegramError")
    /\ UNCHANGED << proc, disk >>

\* os.remove(file_path)
SubRemove(i) ==
    /\ inv[i].pc = "sub_remove"
    /\ \E ok \in BOOLEAN :
        IF disk[inv[i].file_path].fmt = "absent"
        THEN /\ inv' = Raise(i, "FileNotFoundError")
             /\ UNCHANGED << sent, disk >>
        ELSE IF ok
        THEN /\ disk' = [disk EXCEPT ![inv[i].file_path] = Absent]
             /\ Finish(i, inv[i], sent[i])
        ELSE /\ inv' = Raise(i, "PermissionError")
             /\ UNCHANGED << sent, disk >>
    /\ UNCHANGED proc

\* except Exception as e: log, reply_text("Sorry, ... your submission ...")
SubExcept(i) ==
    /\ inv[i].pc = "sub_except"
    /\ \E ok \in BOOLEAN :
        Finish(i, inv[i], Append(sent[i], Text(<< SubmissionFailure >>, ok)))
    /\ UNCHANGED << proc, disk >>

\* -------------------------------------------------------- specifications
Next ==
    \/ ModuleInit
    \/ BuildOk
    \/ BuildFail
    \/ RunWebhookOk
    \/ RunWebhookFail
    \/ Terminate
    \/ \E i \in Slots, m \in Messages : Deliver(i, m)
    \/ \E i \in Slots : Return(i)
    \/ \E i \in Slots : StartReply(i)
    \/ \E i \in Slots : StartExcept(i)
    \/ \E i \in Slots : PromptCheck(i)
    \/ \E i \in Slots : PromptGenerate(i)
    \/ \E i \in Slots : PromptRate(i)
    \/ \E i \in Slots : PromptReply(i)
    \/ \E i \in Slots : PromptExcept(i)
    \/ \E i \in Slots : SubGetFile(i)
    \/ \E i \in Slots : SubDownload(i)
    \/ \E i \in Slots : SubOpen(i)
    \/ \E i \in Slots : SubConvert(i)
    \/ \E i \in Slots : SubSave(i)
    \/ \E i \in Slots : SubRate(i)
    \/ \E i \in Slots : SubReply(i)
    \/ \E i \in Slots : SubRemove(i)
    \/ \E i \in Slots : SubExcept(i)

Spec == Init /\ [][Next]_vars

\* Photo updates handled concurrently: the serving process with two
\* handle_submission invocations in flight, their steps interleaved.
InitConcurrent ==
    /\ proc = [pc |-> "running", exitCode |-> 0, cause |-> "", concurrent_updates |-> TRUE]
    /\ inv = [i \in Slots |-> IdleInv]
    /\ sent = [i \in Slots |-> <<>>]
    /\ disk = [p \in Paths |-> Absent]

NextConcurrent ==
    \/ \E i \in Slots, m \in PhotoMessages : Deliver(i, m)
    \/ \E i \in Slots : SubGetFile(i)
    \/ \E i \in Slots : SubDownload(i)
    \/ \E i \in Slots : SubOpen(i)
    \/ \E i \in Slots : SubConvert(i)
    \/ \E i \in Slots : SubSave(i)
    \/ \E i \in Slots : SubRate(i)
    \/ \E i \in Slots : SubReply(i)
    \/ \E i \in Slots : SubRemove(i)
    \/ \E i \in Slots : SubExcept(i)

SpecConcurrent == InitConcurrent /\ [][NextConcurrent]_vars

\* ================================================================ claims
\* The transient file name an invocation's own photo maps to.
OwnPath(i) == << "temp_", ToString(inv[i].msg.fileId), ".jpg" >>

\* The bucket table of the appreciation texts, as documented.
TableAppreciation(s) ==
    CASE s = 10 -> "Excellent work! You've nailed it!"
      [] s \in { 8, 9 } -> "Great job! Really impressive!"
      [] s \in { 6, 7 } -> "Good effort! Keep it up!"
      [] s \in 1 .. 5 -> "Nice try! Keep practicing!"
      [] OTHER -> "no text"

ScoreTexts == { "1", "2", "3", "4", "5", "6", "7", "8", "9", "10" }

Replies(i, op) == { k \in DOMAIN sent[i] : sent[i][k].op = op }
Contains(body, token) == \E k \in DOMAIN body : body[k] = token

\* C1: once handle_submission has returned, the transient file its download
\* created is no longer on disk, whichever step failed or succeeded.
C1_NoTransientFileAfterReturn ==
    \A i \in Slots :
        (inv[i].h = "handle_submission" /\ inv[i].pc = "done" /\ inv[i].downloaded)
            => disk[OwnPath(i)].fmt = "absent"

\* C2: when the provider call raises, handle_prompt sends exactly one
\* reply_text, the apology with the error text, and never a reply_photo.
C2_ProviderRaiseOneApology ==
    \A i \in Slots :
        (inv[i].h = "handle_prompt" /\ inv[i].provider = "raised")
            => /\ Replies(i, "reply_photo") = {}
               /\ Len(sent[i]) <= 1
               /\ inv[i].pc = "done"
                    => /\ Len(sent[i]) = 1
                       /\ sent[i][1].op = "reply_text"
                       /\ sent[i][1].body = << "Sorry, something went wrong: ", "APIError" >>

C2_Witness ==
    \E i \in Slots :
        /\ inv[i].h = "handle_prompt" /\ inv[i].provider = "raised" /\ inv[i].pc = "done"
        /\ Len(sent[i]) = 1 /\ sent[i][1].ok

\* C3 as stated: every inbound message invokes exactly one of the three
\* handlers, never zero and never more than one.
C3_ExactlyOneHandler ==
    \A i \in Slots : inv[i].pc # "idle" => Len(inv[i].invoked) = 1

\* C3 as amended: every inbound message invokes at most one handler: /start
\* invokes start, a photo handle_submission, text that is no bot command
\* handle_prompt, and any other command or kind of message invokes none.
C3_AtMostOneHandler ==
    \A i \in Slots :
        inv[i].pc # "idle" =>
            LET m == inv[i].msg
                command == m.kind = "text" /\ Len(m.text) >= 2 /\ m.text[1] = "/"
                             /\ m.text[2] \in { "start", "help" }
            IN  inv[i].invoked =
                  CASE m.kind = "photo" -> << "handle_submission" >>
                    [] m.kind = "text" /\ m.text = << "/", "start" >> -> << "start" >>
                    [] m.kind = "text" /\ ~command -> << "handle_prompt" >>
                    [] OTHER -> <<>>

C3_Witness ==
    \E i \in Slots :
        /\ inv[i].pc = "done" /\ inv[i].msg.text = << "/", "help" >>
        /\ inv[i].invoked = <<>>

\* C4 as stated: a text whose first character is '/' never runs the relay
\* path, the dispatch filter keeping it from handle_prompt altogether.
C4_SlashTextNeverDispatched ==
    \A i \in Slots :
        (inv[i].msg.kind = "text" /\ inv[i].msg.text[1] = "/")
            => /\ inv[i].h # "handle_prompt"
               /\ inv[i].provider = "none"

\* C4 as amended: for a text whose first character is '/', the provider is
\* never called and handle_prompt sends neither a photo nor a text, whether
\* or not the dispatch filter let the message through to handle_prompt.
C4_SlashTextNeverRelayed ==
    \A i \in Slots :
        (inv[i].msg.kind = "text" /\ inv[i].msg.text[1] = "/")
            => /\ inv[i].provider = "none"
               /\ inv[i].pc \notin { "prompt_generate", "prompt_rate", "prompt_reply", "prompt_except" }
               /\ inv[i].h = "handle_prompt" => sent[i] = <<>>

C4_Witness ==
    \E i \in Slots :
        /\ inv[i].h = "handle_prompt" /\ inv[i].pc = "done"
        /\ inv[i].msg.text[1] = "/" /\ sent[i] = <<>>

\* C5: in both handlers the appreciation text is the documented function of
\* the score: 10 Excellent, 8-9 Great job, 6-7 Good effort, 1-5 Nice try.
C5_AppreciationBuckets ==
    \A i \in Slots :
        (inv[i].rated /\ inv[i].h \in { "handle_prompt", "handle_submission" })
            => inv[i].appreciation = TableAppreciation(inv[i].rating)

C5_Witness ==
    \E i \in Slots :
        /\ inv[i].h = "handle_prompt" /\ inv[i].rated /\ inv[i].rating = 8
        /\ inv[i].appreciation = "Great job! Really impressive!"

\* C6: when the provider returns one image URL u, handle_prompt sends exactly
\* one reply_photo, of u, captioned with the drawn score and the appreciation
\* of that score, and no text when that send succeeds.
C6_PhotoOfProviderUrl ==
    \A i \in Slots :
        (inv[i].h = "handle_prompt" /\ inv[i].provider = "ok" /\ inv[i].pc = "done")
            => /\ Cardinality(Replies(i, "reply_photo")) = 1
               /\ \A k \in Replies(i, "reply_photo") :
                    /\ sent[i][k].photo = inv[i].image_url
                    /\ sent[i][k].photo \in Urls
                    /\ Contains(sent[i][k].body, ToString(inv[i].rating))
                    /\ Contains(sent[i][k].body, TableAppreciation(inv[i].rating))
                    /\ sent[i][k].ok => Replies(i, "reply_text") = {}

C6_Witness ==
    \E i \in Slots :
        /\ inv[i].h = "handle_prompt" /\ inv[i].provider = "ok" /\ inv[i].pc = "done"
        /\ Len(sent[i]) = 1 /\ sent[i][1].op = "reply_photo" /\ sent[i][1].ok
        /\ sent[i][1].photo = "https://img/2"

\* C7: building the transport client fails => the process ends with exit
\* code 1; in every other case it ends only by external termination.
C7_ExitCodeOnBuildFailure ==
    proc.pc = "exited" =>
        IF proc.cause = "build_failed" THEN proc.exitCode = 1 ELSE proc.cause = "terminated"

\* C8: every drawn score is an integer in 1..10, and so is every score that
\* appears in an outbound caption or confirmation.
C8_ScoreInRange ==
    \A i \in Slots :
        /\ inv[i].rated => inv[i].rating \in 1 .. 10
        /\ \A k \in DOMAIN sent[i] :
             sent[i][k].body[1] \in { ":art: Here's your coloring sheet!\nRating: ",
                                      ":white_check_mark: Submission received! Rating: " }
                => sent[i][k].body[2] \in ScoreTexts

C8_Witness ==
    \E i \in Slots :
        /\ inv[i].h = "handle_submission" /\ inv[i].rated /\ inv[i].rating = 10
        /\ Len(sent[i]) = 1 /\ sent[i][1].body[2] = "10"

\* The file identifier of the invocation that slot j holds in a step of j.
StepFileId(j) == IF inv[j].pc = "idle" THEN inv'[j].msg.fileId ELSE inv[j].msg.fileId

\* C9: with two handle_submission invocations interleaved, a step changes no
\* file but the stepping invocation's own temp_<file_id>.jpg, and when the
\* file identifiers differ it changes nothing the other invocation reads:
\* neither its locals, nor its replies, nor its transient file.
C9_OwnFileOnly ==
    [][ /\ \A p \in DOMAIN disk :
             disk'[p] # disk[p] => \E j \in Slots : inv'[j] # inv[j] /\ p = OwnPath(j)
        /\ \A i \in Slots : inv[i].file_path \in { NoPath, OwnPath(i) }
        /\ \A i, j \in Slots :
             (i # j /\ inv'[j] # inv[j] /\ inv[i].pc # "idle" /\ StepFileId(j) # inv[i].msg.fileId)
                => /\ inv'[i] = inv[i]
                   /\ sent'[i] = sent[i]
                   /\ \A p \in DOMAIN disk : p = OwnPath(i) => disk'[p] = disk[p] ]_vars

C9_Witness ==
    /\ inv[1].pc = "sub_remove" /\ inv[2].pc = "sub_save"
    /\ inv[1].msg.fileId # inv[2].msg.fileId
    /\ disk[OwnPath(1)].fmt = "JPEG" /\ disk[OwnPath(2)].fmt = "raw"

\* C10: an invocation of handle_submission delivers at most one reply: the
\* confirmation or the failure message, never both.
C10_AtMostOneReply ==
    \A i \in Slots :
        inv[i].h = "handle_submission"
            => Cardinality({ k \in DOMAIN sent[i] : sent[i][k].ok }) <= 1

====
